---------------------------- MODULE Spec2Model ----------------------------
(***************************************************************************)
(* Model of the original logic of the SimpleITK notebooks:                 *)
(*   - the multi-orientation initialization search of the registration     *)
(*     initialization notebook (src/unnamed/part_000), in its two forms:   *)
(*     the MetricEvaluate loop and the Exhaustive optimizer grid;          *)
(*   - the least squares sphere fit of the thresholding / edge detection   *)
(*     notebook (src/33_Segmentation_Thresholding_Edge_Detection.ipynb).   *)
(*                                                                         *)
(* Angles are counted in quarter turns: np.pi/2.0 is 1, np.pi is 2,        *)
(* -np.pi is -2.  Similarity values are counted in tenths (0.3 is 3).      *)
(* Physical coordinates are integers and arithmetic on them is exact.      *)
(***************************************************************************)
EXTENDS Integers, Sequences, FiniteSets, TLC

VARIABLES
    \* ---- MetricEvaluate orientation search (part_000, lines 263-300)
    centred,                \* result of CenteredTransformInitializer (GEOMETRY)
    catalogue,              \* all_orientations.items(), in iteration order
    metric,                 \* the values MetricEvaluate has returned so far
    pc,                     \* position in the cell
    idx,                    \* index of the next catalogue entry of the for loop
    initial_transform,      \* the global initial_transform
    method_transform,       \* registration_method's initial transform
    best_orientation,       \* the global best_orientation
    best_similarity_value,  \* the global best_similarity_value
    exception,              \* the exception that ended the cell, if any
    calls,                  \* transforms MetricEvaluate was invoked on, this run
    handed,                 \* transforms passed to multires_registration, this run
    run,                    \* how many times the cell has been started
    previous,               \* outcome of the previous run of the cell
    \* ---- the two strategies on one metric surface (lines 263-300, 345-367)
    surface,                \* the metric value at every grid rotation
    gpc,                    \* which of the two strategies have run
    percandidate_rotation,  \* rotation selected by the MetricEvaluate loop
    exhaustive_rotation,    \* rotation left in initial_transform by Execute
    percandidate_evaluated, \* rotations the MetricEvaluate loop evaluated, in order
    exhaustive_evaluated,   \* parameter points the Exhaustive optimizer evaluated
    \* ---- sphere fit (33_Segmentation..., lines 248-258)
    physical_points,        \* the edge points, in order
    A,                      \* the matrix of the linear system
    b,                      \* its right hand side
    row,                    \* number of rows filled so far
    spc,                    \* position in the sphere fit cell
    res,                    \* line 256: the solved vector
    radius,                 \* line 258: the value handed to print
    fit_error,              \* exception that ended the sphere fit cell
    \* ---- ROI selection (33_Segmentation..., lines 73-96)
    roi_dict,               \* the dictionary passed to the callback
    mask,                   \* the global mask
    mask_ranges,            \* the global mask_ranges
    roi_name,               \* the drop-down's current selection
    painted_before,         \* ROI names painted by earlier callback calls
    roi_intensity_values,   \* lines 116-119: the region the histogram reads
    sub_image,              \* lines 216-218: the region of the cropped image
    \* ---- myshow3d (10_matplotlib's_imshow, lines 360-398)
    xslices, yslices, zslices,  \* the three slice index lists of the call
    components,             \* img.GetNumberOfComponentsPerPixel()
    img_xslices, img_yslices, img_zslices,
    maxlen,
    img_slices,
    d_rows,                 \* d of lines 372-384
    img,                    \* the image myshow is called with
    displayed,              \* TRUE once myshow has been called
    show_pc                 \* position in myshow3d

searchVars == <<centred, catalogue, metric, pc, idx, initial_transform,
                method_transform, best_orientation, best_similarity_value,
                exception, calls, handed, run, previous>>
gridVars == <<surface, gpc, percandidate_rotation, exhaustive_rotation,
              percandidate_evaluated, exhaustive_evaluated>>
sphereVars == <<physical_points, A, b, row, spc, res, radius, fit_error>>
roiVars ==
    <<roi_dict, mask, mask_ranges, roi_name, painted_before,
      roi_intensity_values, sub_image>>
showVars ==
    <<xslices, yslices, zslices, components, img_xslices, img_yslices,
      img_zslices, maxlen, img_slices, d_rows, img, displayed, show_pc>>
vars == <<searchVars, gridVars, sphereVars, roiVars, showVars>>

-----------------------------------------------------------------------------
(* Bounds of the model.                                                    *)

MaxCat == 3
MaxRuns == 2
MaxPoints == 4

\* Largest absolute value of a component of a solved vector handed to the
\* radius recovery on its own.
MaxComponent == 1

\* Longest slice list handed to myshow3d.
MaxSlices == 2

-----------------------------------------------------------------------------
(* Orientations.                                                           *)

Identity == <<0, 0, 0>>

\* The angles the keys of the dictionary of lines 265-271 state ('x=0, y=0,
\* z=90', ...), in source order.
orientation_names ==
    << <<0, 0, 1>>, <<0, 0, -1>>, <<0, 0, 2>>, <<2, 0, 0>>,
       <<2, 0, 1>>, <<2, 0, -1>>, <<2, 0, 2>> >>

\* The dictionary of lines 265-271, in source order.  The entry named
\* 'x=0, y=0, z=-90' holds (0.0, 0.0, -np.pi).
all_orientations ==
    << <<0, 0, 1>>, <<0, 0, -2>>, <<0, 0, 2>>, <<2, 0, 0>>,
       <<2, 0, 1>>, <<2, 0, -1>>, <<2, 0, 2>> >>

Range(s) == {s[i] : i \in DOMAIN s}

\* Entries the bounded catalogues of the search are drawn from.
Pool == {all_orientations[1], all_orientations[2],
         all_orientations[4], all_orientations[5]}

\* A dictionary holds its entries in an arbitrary but fixed order.
Catalogues ==
    {s \in UNION {[1..n -> Pool] : n \in 0..MaxCat} :
        \A i, j \in DOMAIN s : i # j => s[i] # s[j]}

-----------------------------------------------------------------------------
(* Transforms and the similarity metric.                                   *)

\* What CenteredTransformInitializer can return for the image pair: an
\* Euler3DTransform with zero rotation, a centre and a translation.
Centerings ==
    {[rotation |-> Identity, translation |-> <<0, 0, 0>>, center |-> <<0, 0, 0>>],
     [rotation |-> Identity, translation |-> <<5, -3, 7>>, center |-> <<4, 4, 2>>]}

\* sitk.Euler3DTransform(t): a copy of t.
Euler3DTransform(t) ==
    [rotation |-> t.rotation, translation |-> t.translation, center |-> t.center]

\* A rotation set by building a new transform: translation and centre lost.
SetRotationAndReset(t, orientation) ==
    [rotation |-> orientation, translation |-> <<0, 0, 0>>, center |-> <<0, 0, 0>>]

\* initial_transform.SetRotation(*orientation)
SetRotation(t, orientation) ==
    [t EXCEPT !.rotation = orientation]

\* Similarity values, in tenths.
Scores == {3, 5, 8, 9}

\* A global name that has not been assigned yet.
Unassigned == -1

NoError == "none"

\* What one MetricEvaluate call can do: return a value, or raise.
Outcomes ==
    [raised : {FALSE}, value : Scores, error : {NoError}]
    \cup {[raised |-> TRUE, value |-> 0, error |-> "EvaluationError"]}

\* registration_method.MetricEvaluate(fixed_image, modified_moving_image) on
\* transform t yields out.  The metric is a function of the transform: a
\* transform evaluated before yields what it yielded before.
MetricEvaluate(t, out) ==
    /\ out \in Outcomes
    /\ t \in DOMAIN metric => out = metric[t]
    /\ metric' = (t :> out) @@ metric

\* Line 294 with '<=': a later candidate of equal value replaces the best.
BetterOrEqual(current, best) == current <= best

\* Line 294 with '>': the search keeps the largest value.
Worse(current, best) == current > best

\* Line 294: current_similarity_value < best_similarity_value
Better(current, best) == current < best

\* Lines 294-296 without line 296: the value is replaced, the rotation is not.
AccumulateValueOnly(best, orientation, current) ==
    IF current < best.value
        THEN [orientation |-> best.orientation, value |-> current]
        ELSE best

\* Lines 294-296: the running best after a candidate has been evaluated.
Accumulate(best, orientation, current) ==
    IF Better(current, best.value)
        THEN [orientation |-> orientation, value |-> current]
        ELSE best

\* An exception of MetricEvaluate caught and ignored.
Swallowed(out) == FALSE

\* An exception of MetricEvaluate is not caught: it ends the cell.
Propagates(out) == out.raised


-----------------------------------------------------------------------------
(* The MetricEvaluate cell, lines 263-300 of part_000.                     *)

\* The default transform of a new sitk.ImageRegistrationMethod (line 274).
DefaultTransform ==
    [rotation |-> Identity, translation |-> <<0, 0, 0>>, center |-> <<0, 0, 0>>]

NoRun ==
    [pc |-> "none", best_orientation |-> <<>>,
     best_similarity_value |-> Unassigned, handed |-> <<>>]

gridIdle ==
    /\ surface = <<>>
    /\ gpc = "idle"
    /\ percandidate_rotation = <<>>
    /\ exhaustive_rotation = <<>>
    /\ percandidate_evaluated = <<>>
    /\ exhaustive_evaluated = {}

sphereIdle ==
    /\ physical_points = <<>>
    /\ A = <<>>
    /\ b = <<>>
    /\ row = 0
    /\ spc = "idle"
    /\ res = <<>>
    /\ radius = [kind |-> "none", square |-> <<0, 1>>]
    /\ fit_error = NoError

\* The image myshow3d is called with, before any tiling.
InputImage == [op |-> "input", tiles |-> <<>>]

showIdle ==
    /\ xslices = <<>>
    /\ yslices = <<>>
    /\ zslices = <<>>
    /\ components = 1
    /\ img_xslices = <<>>
    /\ img_yslices = <<>>
    /\ img_zslices = <<>>
    /\ maxlen = 0
    /\ img_slices = <<>>
    /\ d_rows = 0
    /\ img = InputImage
    /\ displayed = FALSE
    /\ show_pc = "idle"

roiIdle ==
    /\ roi_dict = <<>>
    /\ mask = <<>>
    /\ mask_ranges = <<>>
    /\ roi_name = "idle"
    /\ painted_before = {}
    /\ roi_intensity_values = [assigned |-> FALSE, ranges |-> <<>>, indices |-> {}]
    /\ sub_image = [assigned |-> FALSE, ranges |-> <<>>, indices |-> {}]

\* The notebook's state when the MetricEvaluate cell is first run: the cell
\* of line 199 has left the centred transform in initial_transform.
Init ==
    /\ centred \in Centerings
    /\ catalogue \in Catalogues
    /\ metric = <<>>
    /\ pc = "start"
    /\ idx = 0
    /\ initial_transform = centred
    /\ method_transform = DefaultTransform
    /\ best_orientation = <<>>
    /\ best_similarity_value = Unassigned
    /\ exception = NoError
    /\ calls = <<>>
    /\ handed = <<>>
    /\ run = 1
    /\ previous = NoRun
    /\ gridIdle
    /\ sphereIdle
    /\ roiIdle
    /\ showIdle

\* Lines 281-284 left out: the transform of the previous run is reused.
StaleTransform == initial_transform

\* Lines 281-284: a new Euler3DTransform from the centering.
SeedTransform == Euler3DTransform(centred)

\* Line 287 done only when no best value exists yet.
KeptValue(out) ==
    IF best_similarity_value = Unassigned THEN out.value ELSE best_similarity_value

\* Line 287: the value MetricEvaluate returned for the identity.
SeedValue(out) == out.value

\* Lines 281-287: the transform is rebuilt, the registration method gets a
\* copy of it (inPlace=False), and the identity seeds the running best.
Seed ==
    /\ pc = "start"
    /\ initial_transform' = SeedTransform
    /\ method_transform' = Euler3DTransform(initial_transform')
    /\ best_orientation' = Identity
    /\ calls' = <<method_transform'>>
    /\ handed' = <<>>
    /\ \E out \in Outcomes :
         /\ MetricEvaluate(method_transform', out)
         /\ IF Propagates(out)
               THEN /\ pc' = "failed"
                    /\ exception' = out.error
                    /\ idx' = 0
                    /\ UNCHANGED best_similarity_value
               ELSE /\ pc' = "loop"
                    /\ exception' = NoError
                    /\ idx' = 1
                    /\ best_similarity_value' = SeedValue(out)
    /\ UNCHANGED <<centred, catalogue, run, previous, gridVars, sphereVars, roiVars, showVars>>

\* The for loop leaving out every second entry.
SkipEntry(i) == i + 2

\* Line 290: the for loop moves on to the next entry of the dictionary.
NextEntry(i) == i + 1

\* Lines 290-296: one iteration of the for loop.
Visit ==
    /\ pc = "loop"
    /\ idx <= Len(catalogue)
    /\ LET orientation == catalogue[idx] IN
         /\ initial_transform' = SetRotation(initial_transform, orientation)
         /\ method_transform' = initial_transform'
         /\ calls' = Append(calls, method_transform')
         /\ \E out \in Outcomes :
              /\ MetricEvaluate(method_transform', out)
              /\ IF Propagates(out)
                    THEN /\ pc' = "failed"
                         /\ exception' = out.error
                         /\ UNCHANGED <<idx, best_orientation, best_similarity_value>>
                    ELSE /\ pc' = "loop"
                         /\ idx' = NextEntry(idx)
                         /\ UNCHANGED exception
                         /\ LET best == Accumulate(
                                    [orientation |-> best_orientation,
                                     value |-> best_similarity_value],
                                    orientation, out.value)
                            IN /\ best_similarity_value' = best.value
                               /\ best_orientation' = best.orientation
    /\ UNCHANGED <<centred, catalogue, handed, run, previous, gridVars, sphereVars, roiVars, showVars>>

\* Line 298 left out: the rotation of the last candidate evaluated stays.
LastRotation == initial_transform.rotation

\* Line 298: the rotation given to the transform after the loop.
FinalRotation == best_orientation

\* Lines 298-300: the winner is set and the transform is handed to
\* multires_registration.
Finish ==
    /\ pc = "loop"
    /\ idx > Len(catalogue)
    /\ initial_transform' = SetRotation(initial_transform, FinalRotation)
    /\ handed' = <<initial_transform'>>
    /\ pc' = "done"
    /\ UNCHANGED <<centred, catalogue, metric, idx, method_transform,
                   best_orientation, best_similarity_value, exception, calls,
                   run, previous, gridVars, sphereVars, roiVars, showVars>>

\* The cell is run again: the notebook's globals are as the last run left them.
Rerun ==
    /\ pc \in {"done", "failed"}
    /\ run < MaxRuns
    /\ run' = run + 1
    /\ previous' = [pc |-> pc, best_orientation |-> best_orientation,
                    best_similarity_value |-> best_similarity_value,
                    handed |-> handed]
    /\ pc' = "start"
    /\ calls' = <<>>
    /\ handed' = <<>>
    /\ UNCHANGED <<centred, catalogue, metric, idx, initial_transform,
                   method_transform, best_orientation, best_similarity_value,
                   exception, gridVars, sphereVars, roiVars, showVars>>

Next == Seed \/ Visit \/ Finish \/ Rerun

Spec == Init /\ [][Next]_vars

-----------------------------------------------------------------------------
(* Properties of the MetricEvaluate search.                                *)

\* The transform a candidate rotation is evaluated on.
CandidateTransform(r) ==
    [rotation |-> r, translation |-> centred.translation, center |-> centred.center]

\* The candidates in the order the cell meets them.
Candidates == <<Identity>> \o catalogue

ScoreOf(r) == metric[CandidateTransform(r)].value

\* Number of candidates whose value has been compared so far.
Processed ==
    IF pc = "done" THEN Len(Candidates)
    ELSE IF pc = "loop" THEN idx
    ELSE 0

\* The scenario of the specification: three candidates, values 0.8 for the
\* identity and 0.3, 0.9, 0.5 for the candidates.
Scenario ==
    /\ catalogue = << <<0, 0, 1>>, <<2, 0, 0>>, <<2, 0, 1>> >>
    /\ ScoreOf(Identity) = 8
    /\ ScoreOf(catalogue[1]) = 3
    /\ ScoreOf(catalogue[2]) = 9
    /\ ScoreOf(catalogue[3]) = 5

\* C1: when the search has ended, the returned value is the minimum of the
\* metric over the identity and all catalogue entries, the returned rotation
\* is a candidate whose value is the returned value, and in the scenario of
\* the specification the result is the first candidate with value 0.3.
C1_BestCandidateAndScore ==
    pc = "done" =>
        /\ \A i \in 1..Len(Candidates) :
              best_similarity_value <= ScoreOf(Candidates[i])
        /\ \E i \in 1..Len(Candidates) :
              /\ best_orientation = Candidates[i]
              /\ best_similarity_value = ScoreOf(Candidates[i])
        /\ Scenario => /\ best_orientation = <<0, 0, 1>>
                       /\ best_similarity_value = 3

C1_Witness ==
    /\ pc = "done"
    /\ Scenario
    /\ best_orientation = catalogue[1]
    /\ best_similarity_value = 3

\* C2: after the identity has been evaluated, after every iteration of the
\* loop and at the end, the running best value is never greater than the
\* value of the identity; this includes the empty catalogue.
C2_NeverWorseThanIdentity ==
    (pc \in {"loop", "done"} \/ (pc = "failed" /\ Len(calls) > 1)) =>
        best_similarity_value <= ScoreOf(Identity)

C2_Witness ==
    /\ pc = "loop"
    /\ idx > 1
    /\ idx <= Len(catalogue)
    /\ best_similarity_value < ScoreOf(Identity)

\* C3: among the candidates processed so far, no candidate met before the
\* running best has the running best's value: on a tie the first one met
\* (the identity before every catalogue entry) is kept.
C3_FirstSeenWins ==
    pc \in {"loop", "done"} =>
        \A k \in 1..Processed :
            Candidates[k] = best_orientation =>
                /\ \A i \in 1..(k - 1) : ScoreOf(Candidates[i]) # best_similarity_value
                /\ ScoreOf(Candidates[k]) = best_similarity_value

C3_Witness ==
    /\ pc = "done"
    /\ \E i, j \in 1..Len(Candidates) :
          /\ i < j
          /\ best_orientation = Candidates[i]
          /\ ScoreOf(Candidates[j]) = best_similarity_value

\* C4: the first transform evaluated in a run carries the identity rotation,
\* and before the first catalogue entry is visited the running best is the
\* identity with the identity's value.
C4_IdentityFirst ==
    /\ calls # <<>> => calls[1] = CandidateTransform(Identity)
    /\ (pc = "loop" /\ idx = 1) =>
          /\ calls = <<CandidateTransform(Identity)>>
          /\ best_orientation = Identity
          /\ best_similarity_value = ScoreOf(Identity)

C4_Witness ==
    /\ pc = "loop"
    /\ idx = 1
    /\ catalogue # <<>>
    /\ run > 1
    /\ previous.best_orientation # Identity

\* C6: a failing evaluation is the last evaluation of its run: the cell has
\* stopped with that exception, nothing was handed to the registration, and
\* no transform was evaluated twice.
C6_FailureStopsSearch ==
    /\ \A i \in 1..Len(calls) :
          metric[calls[i]].raised =>
              /\ pc = "failed"
              /\ i = Len(calls)
              /\ exception = metric[calls[i]].error
              /\ handed = <<>>
    /\ pc = "failed" => /\ calls # <<>>
                        /\ metric[calls[Len(calls)]].raised
    /\ \A i, j \in 1..Len(calls) : i # j => calls[i] # calls[j]
    /\ handed # <<>> => pc = "done"

C6_Witness ==
    /\ pc = "failed"
    /\ Len(calls) > 1
    /\ Len(calls) <= Len(catalogue)
    /\ best_orientation # Identity

\* C7: a second run of the cell with the same catalogue and the same metric
\* ends as the first did: same rotation, same value, same transform handed on.
C7_Deterministic ==
    (run > 1 /\ pc \in {"done", "failed"}) =>
        /\ previous.pc = pc
        /\ previous.best_orientation = best_orientation
        /\ previous.best_similarity_value = best_similarity_value
        /\ previous.handed = handed

C7_Witness ==
    /\ run > 1
    /\ pc = "done"
    /\ best_orientation # Identity
    /\ previous.best_orientation = best_orientation

\* C8: every transform evaluated, the transform handed to the registration
\* and initial_transform itself carry the translation and the centre of the
\* centering step.
C8_TranslationFixed ==
    /\ \A i \in 1..Len(calls) :
          /\ calls[i].translation = centred.translation
          /\ calls[i].center = centred.center
    /\ \A i \in 1..Len(handed) :
          /\ handed[i].translation = centred.translation
          /\ handed[i].center = centred.center
    /\ initial_transform.translation = centred.translation
    /\ initial_transform.center = centred.center

C8_Witness ==
    /\ pc = "done"
    /\ centred.translation # <<0, 0, 0>>
    /\ Len(calls) > 2
    /\ handed[1].rotation # Identity

\* C9: the transform handed to multires_registration carries the winning
\* rotation, whatever candidate was evaluated last.
C9_WinnerHanded ==
    pc = "done" =>
        /\ handed = <<initial_transform>>
        /\ initial_transform.rotation = best_orientation

C9_Witness ==
    /\ pc = "done"
    /\ Len(catalogue) > 1
    /\ best_orientation # Identity
    /\ best_orientation # catalogue[Len(catalogue)]
    /\ handed[1].rotation = best_orientation

\* A step of the for loop that evaluated its entry without an exception.
LoopStep == pc = "loop" /\ pc' = "loop" /\ idx' > idx

\* C15: at each catalogue entry the running best is replaced exactly when
\* the entry's value is strictly less than the best value; a replacement sets
\* value and rotation to the entry's, otherwise both stay as they were.
C15_ReplaceIffStrictlyLess ==
    [][LoopStep =>
         LET orientation == catalogue[idx]
             current == metric'[CandidateTransform(orientation)].value
         IN IF current < best_similarity_value
               THEN /\ best_similarity_value' = current
                    /\ best_orientation' = orientation
               ELSE /\ best_similarity_value' = best_similarity_value
                    /\ best_orientation' = best_orientation]_vars

C15_Witness ==
    /\ pc = "done"
    /\ Len(catalogue) = 3
    /\ ScoreOf(catalogue[1]) > ScoreOf(Identity)
    /\ ScoreOf(catalogue[2]) < ScoreOf(Identity)
    /\ ScoreOf(catalogue[3]) = ScoreOf(catalogue[2])
    /\ best_orientation = catalogue[2]
    /\ best_similarity_value = ScoreOf(catalogue[2])

\* C16: a run that ends has invoked MetricEvaluate once on the identity and
\* then once on every catalogue entry, in catalogue order: len(catalogue)+1
\* invocations, 8 for the dictionary of 7 entries.
C16_OneEvaluationPerCandidate ==
    /\ pc = "done" =>
          /\ Len(calls) = Len(catalogue) + 1
          /\ \A i \in 1..Len(calls) : calls[i] = CandidateTransform(Candidates[i])
          /\ \A i, j \in 1..Len(calls) : i # j => calls[i] # calls[j]
    /\ Len(<<Identity>> \o all_orientations) = 8

C16_Witness ==
    /\ pc = "done"
    /\ Len(catalogue) = 3
    /\ Len(calls) = 4
    /\ calls[4].rotation = catalogue[3]

\* C19: after the identity and any prefix of the catalogue, the best value
\* is the minimum of the values of the candidates processed so far, the best
\* rotation is one of them and has that value, and no step of the loop
\* increases the best value.
C19_LoopInvariant ==
    /\ [](pc \in {"loop", "done"} =>
            /\ \A i \in 1..Processed :
                  best_similarity_value <= ScoreOf(Candidates[i])
            /\ \E i \in 1..Processed :
                  /\ best_orientation = Candidates[i]
                  /\ best_similarity_value = ScoreOf(Candidates[i]))
    /\ [][pc = "loop" => best_similarity_value' <= best_similarity_value]_vars

C19_Witness ==
    /\ pc = "loop"
    /\ Len(catalogue) = 3
    /\ idx = 3
    /\ best_orientation = catalogue[1]
    /\ best_similarity_value < ScoreOf(Identity)
    /\ ScoreOf(catalogue[2]) > best_similarity_value

-----------------------------------------------------------------------------
(* The two strategies on one metric surface: the MetricEvaluate loop       *)
(* (lines 263-300) and the Exhaustive optimizer (lines 345-367).           *)

\* The search variables of a notebook in which the MetricEvaluate cell is
\* not being stepped: the dictionary is the one of lines 265-271.
searchIdle ==
    /\ centred = DefaultTransform
    /\ catalogue = all_orientations
    /\ metric = <<>>
    /\ pc = "idle"
    /\ idx = 0
    /\ initial_transform = DefaultTransform
    /\ method_transform = DefaultTransform
    /\ best_orientation = <<>>
    /\ best_similarity_value = Unassigned
    /\ exception = NoError
    /\ calls = <<>>
    /\ handed = <<>>
    /\ run = 0
    /\ previous = NoRun

\* Line 360: numberOfSteps=[1,0,2,0,0,0], in the parameter order
\* [angle_x, angle_y, angle_z, t_x, t_y, t_z].
numberOfSteps == <<1, 0, 2, 0, 0, 0>>

\* Line 360: stepLength = np.pi, in quarter turns.
stepLength == 2

\* Line 361: the optimizer scales [1,1,0.5,1,1,1], doubled.
optimizerScalesDoubled == <<2, 2, 1, 2, 2, 2>>

\* The grid without line 361: every parameter stepped by stepLength.
GridValuesUnscaled(d) ==
    {k * stepLength : k \in (0 - numberOfSteps[d])..numberOfSteps[d]}

\* The values of parameter d on the grid, centred on the initial value 0:
\* k * stepLength * scale[d] for k in -numberOfSteps[d]..numberOfSteps[d].
GridValues(d) ==
    {(k * stepLength * optimizerScalesDoubled[d]) \div 2 :
        k \in (0 - numberOfSteps[d])..numberOfSteps[d]}

\* The rotations of the grid (lines 357-359).
GridRotations ==
    {<<x, y, z>> : x \in GridValues(1), y \in GridValues(2), z \in GridValues(3)}

\* The grid walked without the optimizer scales.
GridPointsUnscaled ==
    {<<x, y, z, tx, ty, tz>> :
        x \in GridValuesUnscaled(1), y \in GridValuesUnscaled(2),
        z \in GridValuesUnscaled(3), tx \in GridValuesUnscaled(4),
        ty \in GridValuesUnscaled(5), tz \in GridValuesUnscaled(6)}

\* The grid in the parameter order [angle_x, angle_y, angle_z, t_x, t_y, t_z],
\* as offsets from the parameters of initial_transform.
GridPoints ==
    {<<x, y, z, tx, ty, tz>> :
        x \in GridValues(1), y \in GridValues(2), z \in GridValues(3),
        tx \in GridValues(4), ty \in GridValues(5), tz \in GridValues(6)}

\* Lines 287 and 293: the loop has no break, so the identity and then every
\* entry are evaluated.
PerCandidateEvaluated(cat) == <<Identity>> \o cat

\* Metric values of the surfaces the two strategies are compared on.
GridScores == {0, 1}

\* The grid rotations at which surface f is minimal.
ArgMin(f) ==
    {r \in DOMAIN f : \A q \in DOMAIN f : f[r] <= f[q]}

RECURSIVE SearchFrom(_, _, _, _)
\* The for loop of lines 290-296 from entry i on, on surface f.
SearchFrom(f, cat, i, best) ==
    IF i > Len(cat) THEN best
    ELSE SearchFrom(f, cat, i + 1, Accumulate(best, cat[i], f[cat[i]]))

\* Lines 286-298 on surface f: the rotation set at line 298.
PerCandidateSearch(f, cat) ==
    SearchFrom(f, cat, 1, [orientation |-> Identity, value |-> f[Identity]])

InitGrid ==
    /\ surface \in [GridRotations -> GridScores]
    /\ gpc = "start"
    /\ percandidate_rotation = <<>>
    /\ exhaustive_rotation = <<>>
    /\ percandidate_evaluated = <<>>
    /\ exhaustive_evaluated = {}
    /\ searchIdle
    /\ sphereIdle
    /\ roiIdle
    /\ showIdle

\* The MetricEvaluate cell run to its end on the surface.
RunPerCandidate ==
    /\ gpc = "start"
    /\ percandidate_rotation' = PerCandidateSearch(surface, catalogue).orientation
    /\ percandidate_evaluated' = PerCandidateEvaluated(catalogue)
    /\ gpc' = "percandidate"
    /\ UNCHANGED <<surface, exhaustive_rotation, exhaustive_evaluated,
                   searchVars, sphereVars, roiVars, showVars>>

\* Lines 360-365: Execute with the Exhaustive optimizer, in place, leaves a
\* grid rotation of minimal metric value in initial_transform.  Which one of
\* several minimal ones is the optimizer's business.
RunExhaustive ==
    /\ gpc = "percandidate"
    /\ \E r \in ArgMin(surface) : exhaustive_rotation' = r
    /\ exhaustive_evaluated' = GridPoints
    /\ gpc' = "both"
    /\ UNCHANGED <<surface, percandidate_rotation, percandidate_evaluated,
                   searchVars, sphereVars, roiVars, showVars>>

NextGrid == RunPerCandidate \/ RunExhaustive

SpecGrid == InitGrid /\ [][NextGrid]_vars

\* A surface that takes the same value at angles a full turn apart, as the
\* metric of a rotation does.
SameRotation(r, q) ==
    \A d \in 1..3 : (r[d] - q[d]) % 4 = 0

Periodic(f) ==
    \A r, q \in DOMAIN f : SameRotation(r, q) => f[r] = f[q]

\* C5: the two strategies select the same rotation.  Stated for the surfaces
\* on which the answer does not depend on how ties are broken or on how a
\* rotation is written: periodic surfaces with a single minimal grid point.
C5_SameWinner ==
    (gpc = "both" /\ Periodic(surface) /\ Cardinality(ArgMin(surface)) = 1) =>
        exhaustive_rotation = percandidate_rotation

\* C17: the Exhaustive optimizer evaluates exactly 15 parameter points, 3
\* values of angle_x times 5 of angle_z with angle_y and the translation
\* fixed, and every one of the 8 rotations the MetricEvaluate loop evaluates
\* is the rotation of one of them.
C17_GridIsSuperset ==
    gpc = "both" =>
        /\ Cardinality(exhaustive_evaluated) = 15
        /\ Cardinality({p[1] : p \in exhaustive_evaluated}) = 3
        /\ Cardinality({p[3] : p \in exhaustive_evaluated}) = 5
        /\ \A p \in exhaustive_evaluated :
              p[2] = 0 /\ p[4] = 0 /\ p[5] = 0 /\ p[6] = 0
        /\ Len(percandidate_evaluated) = 8
        /\ Cardinality(Range(percandidate_evaluated)) = 8
        /\ \A i \in 1..Len(percandidate_evaluated) :
              \E p \in exhaustive_evaluated :
                  <<p[1], p[2], p[3]>> = percandidate_evaluated[i]

C17_Witness ==
    /\ gpc = "both"
    /\ <<0, 0, -1, 0, 0, 0>> \in exhaustive_evaluated
    /\ <<0, 0, -1>> \notin Range(percandidate_evaluated)
    /\ <<0, 0, -2>> \in Range(percandidate_evaluated)
    /\ exhaustive_rotation = <<0, 0, -1>>

\* C18: the eight orientations the MetricEvaluate loop evaluates are eight
\* different rotations: every entry holds the angles its key states, and no
\* two of the eight differ by full turns only.
C18_EightDistinctOrientations ==
    gpc # "start" =>
        /\ \A i \in 1..Len(catalogue) : catalogue[i] = orientation_names[i]
        /\ \A i, j \in 1..Len(percandidate_evaluated) :
              i # j => ~SameRotation(percandidate_evaluated[i],
                                     percandidate_evaluated[j])

-----------------------------------------------------------------------------
(* The sphere fit cell, lines 248-258 of the segmentation notebook.        *)

\* Edge points the fit is run on.
PointPool ==
    {<<0, 0, 0>>, <<6, 2, 3>>, <<1, 7, 3>>, <<1, 2, 8>>, <<-4, 2, 3>>}

PointLists ==
    UNION {[1..n -> PointPool] : n \in 0..MaxPoints}

\* Line 254 with the z term left out.
NormSquaredXY(point) ==
    point[1] * point[1] + point[2] * point[2]

\* linalg.norm(point)**2
NormSquared(point) ==
    point[1] * point[1] + point[2] * point[2] + point[3] * point[3]

\* Line 249 with np.zeros: the fourth column is 0.
Zeros4(n) == [i \in 1..n |-> <<0, 0, 0, 0>>]

\* Line 249: np.ones((n,4))
Ones4(n) == [i \in 1..n |-> <<1, 1, 1, 1>>]

\* Line 250: np.zeros(n)
Zeros(n) == [i \in 1..n |-> 0]

\* Exact arithmetic for line 256.  A number is <<numerator, denominator>>
\* in lowest terms with a positive denominator.
RECURSIVE GCD(_, _)
GCD(m, n) == IF n = 0 THEN m ELSE GCD(n, m % n)

Abs(x) == IF x < 0 THEN 0 - x ELSE x

Rat(n, d) ==
    LET g == GCD(Abs(n), Abs(d))
        s == IF d < 0 THEN 0 - 1 ELSE 1
    IN <<s * (n \div g), s * (d \div g)>>

RatZero == <<0, 1>>

RatMul(x, y) ==
    LET g1 == GCD(Abs(x[1]), y[2])
        g2 == GCD(Abs(y[1]), x[2])
    IN Rat((x[1] \div g1) * (y[1] \div g2), (x[2] \div g2) * (y[2] \div g1))

RatDiv(x, y) == RatMul(x, Rat(y[2], y[1]))

RatAdd(x, y) ==
    LET g == GCD(x[2], y[2])
    IN Rat(x[1] * (y[2] \div g) + y[1] * (x[2] \div g), x[2] * (y[2] \div g))

RatSub(x, y) == RatAdd(x, <<0 - y[1], y[2]>>)

RECURSIVE RatDotFrom(_, _, _)
RatDotFrom(x, y, i) ==
    IF i = 0 THEN RatZero
    ELSE RatAdd(RatDotFrom(x, y, i - 1), RatMul(x[i], y[i]))

\* The inner product of two vectors of equal length.
RatDot(x, y) == RatDotFrom(x, y, Len(x))

\* The sequence with the elements of f, each computed once.
Tuple(f) == SubSeq(f, 1, Len(f))

RatVector(v) == Tuple([i \in 1..Len(v) |-> <<v[i], 1>>])

RatMatrix(M) == Tuple([i \in 1..Len(M) |-> RatVector(M[i])])

\* Gauss-Jordan elimination from column c on, r rows already reduced:
\* the non-zero rows of the reduced row echelon form and its pivot columns.
RECURSIVE RowReduce(_, _, _, _)
RowReduce(M, c, r, pivots) ==
    IF r >= Len(M) \/ c > Len(M[1])
    THEN [rows |-> SubSeq(M, 1, r), pivots |-> pivots]
    ELSE LET cand == {i \in (r + 1)..Len(M) : M[i][c][1] # 0} IN
         IF cand = {}
         THEN RowReduce(M, c + 1, r, pivots)
         ELSE LET p == CHOOSE i \in cand : \A j \in cand : i <= j
                  pivrow == Tuple([k \in 1..Len(M[p]) |-> RatDiv(M[p][k], M[p][c])])
                  cleared ==
                      Tuple([i \in 1..Len(M) |->
                          IF i = r + 1 THEN pivrow
                          ELSE LET old == IF i = p THEN M[r + 1] ELSE M[i] IN
                               Tuple([k \in 1..Len(old) |->
                                   RatSub(old[k], RatMul(old[c], pivrow[k]))])])
              IN RowReduce(cleared, c + 1, r + 1, Append(pivots, c))

\* The rank of an integer matrix with at least one row.
Rank(M) == Len(RowReduce(RatMatrix(M), 1, 0, <<>>).pivots)

\* The solution of the square non-singular system S x = g.
SolveSquare(S, g) ==
    LET n == Len(S)
        reduced == RowReduce(Tuple([i \in 1..n |-> Append(S[i], g[i])]), 1, 0, <<>>)
    IN Tuple([i \in 1..n |-> reduced.rows[i][n + 1]])

\* The minimum-norm least-squares solution of M u = rhs for an integer
\* matrix M with at least one row and an integer vector rhs, through the
\* full-rank factorisation M = F G (F: the pivot columns of M, G: the
\* non-zero rows of its reduced row echelon form):
\* u = G^T (G G^T)^-1 (F^T F)^-1 F^T rhs.
MinimumNormSolution(M, rhs) ==
    LET n == Len(M)
        reduced == RowReduce(RatMatrix(M), 1, 0, <<>>)
        G == reduced.rows
        rk == Len(reduced.pivots)
        F == Tuple([j \in 1..rk |->
                 Tuple([i \in 1..n |-> <<M[i][reduced.pivots[j]], 1>>])])
        FtF == Tuple([i \in 1..rk |-> Tuple([j \in 1..rk |-> RatDot(F[i], F[j])])])
        Ftb == Tuple([i \in 1..rk |-> RatDot(F[i], RatVector(rhs))])
        w == SolveSquare(FtF, Ftb)
        GGt == Tuple([i \in 1..rk |-> Tuple([j \in 1..rk |-> RatDot(G[i], G[j])])])
        y == SolveSquare(GGt, w)
    IN Tuple([k \in 1..Len(M[1]) |-> RatDot(Tuple([i \in 1..rk |-> G[i][k]]), y)])

\* Line 256: what linalg.lstsq(A,b) returns as its first value, or the
\* exception it ends with.  An empty system is answered by the zero vector
\* or refused with ValueError, depending on the library's version.
lstsq(M, rhs) ==
    IF Len(M) = 0
    THEN {[error |-> NoError, x |-> <<RatZero, RatZero, RatZero, RatZero>>],
          [error |-> "ValueError", x |-> <<>>]}
    ELSE {[error |-> NoError, x |-> MinimumNormSolution(M, rhs)]}

\* Line 258 with the sign of res[3] reversed.
RadicandSum(u) ==
    RatAdd(RatDot(SubSeq(u, 1, 3), SubSeq(u, 1, 3)), u[4])

\* Line 258: linalg.norm(res[0:3])**2 - res[3]
Radicand(u) ==
    RatSub(RatDot(SubSeq(u, 1, 3), SubSeq(u, 1, 3)), u[4])

\* Nothing has been handed to print.
NotReported == [kind |-> "none", square |-> RatZero]

\* Line 258: np.sqrt(x), a non-negative real given by its square, or nan
\* for a negative x.
sqrt(x) ==
    IF x[1] < 0 THEN [kind |-> "nan", square |-> RatZero]
    ELSE [kind |-> "real", square |-> x]

InitSphere ==
    /\ physical_points \in PointLists
    /\ A = <<>>
    /\ b = <<>>
    /\ row = 0
    /\ spc = "start"
    /\ res = <<>>
    /\ radius = NotReported
    /\ fit_error = NoError
    /\ searchIdle
    /\ gridIdle
    /\ roiIdle
    /\ showIdle

\* Lines 249-250: A and b are allocated, one row per point.
Allocate ==
    /\ spc = "start"
    /\ A' = Ones4(Len(physical_points))
    /\ b' = Zeros(Len(physical_points))
    /\ row' = 0
    /\ spc' = "fill"
    /\ UNCHANGED <<physical_points, res, radius, fit_error, searchVars, gridVars, roiVars, showVars>>

\* Lines 252-254: one iteration of the enumerate loop; A[row,0:3] is
\* assigned and the fourth column keeps what np.ones put there.
FillRow ==
    /\ spc = "fill"
    /\ row < Len(physical_points)
    /\ LET point == physical_points[row + 1] IN
         /\ A' = [A EXCEPT ![row + 1] =
                    <<(0 - 2) * point[1], (0 - 2) * point[2], (0 - 2) * point[3], @[4]>>]
         /\ b' = [b EXCEPT ![row + 1] = 0 - NormSquared(point)]
    /\ row' = row + 1
    /\ UNCHANGED <<physical_points, spc, res, radius, fit_error, searchVars, gridVars, roiVars, showVars>>

\* Line 256: res,_,_,_ = linalg.lstsq(A,b), after the loop has ended.
Solve ==
    /\ spc = "fill"
    /\ row = Len(physical_points)
    /\ \E outcome \in lstsq(A, b) :
          /\ res' = outcome.x
          /\ fit_error' = outcome.error
          /\ spc' = IF outcome.error = NoError THEN "solved" ELSE "raised"
    /\ UNCHANGED <<physical_points, A, b, row, radius, searchVars, gridVars, roiVars, showVars>>

\* Line 258: the radius is computed from res and printed.
Report ==
    /\ spc = "solved"
    /\ radius' = sqrt(Radicand(res))
    /\ spc' = "done"
    /\ UNCHANGED <<physical_points, A, b, row, res, fit_error, searchVars, gridVars, roiVars, showVars>>

NextSphere == Allocate \/ FillRow \/ Solve \/ Report

SpecSphere == InitSphere /\ [][NextSphere]_vars

\* The linear system is complete: the loop of line 252 has ended.
SystemBuilt == spc = "fill" /\ row = Len(physical_points)

\* C10: when the loop has ended, A has one row of 4 entries per point and b
\* one entry per point, in input order: row i is [-2x, -2y, -2z, 1] and
\* b[i] is -(x^2 + y^2 + z^2) of point i, duplicates included.
C10_OneEquationPerPoint ==
    SystemBuilt =>
        /\ Len(A) = Len(physical_points)
        /\ Len(b) = Len(physical_points)
        /\ \A i \in 1..Len(physical_points) :
              LET x == physical_points[i][1]
                  y == physical_points[i][2]
                  z == physical_points[i][3]
              IN /\ A[i] = <<(-2) * x, (-2) * y, (-2) * z, 1>>
                 /\ b[i] = -(x * x + y * y + z * z)

C10_Witness ==
    /\ SystemBuilt
    /\ Len(physical_points) = 3
    /\ physical_points[1] = physical_points[3]
    /\ physical_points[1] # physical_points[2]
    /\ A[1] = A[3]
    /\ A[2] = <<-2, -14, -6, 1>>
    /\ b[2] = -59

\* Centres of the spheres the round trip is stated for.
SphereCentres == {<<x, y, z>> : x \in 0..2, y \in 1..3, z \in 2..4}

\* |p - c|^2
DistSquared(p, c) ==
    (p[1] - c[1]) * (p[1] - c[1]) + (p[2] - c[2]) * (p[2] - c[2])
        + (p[3] - c[3]) * (p[3] - c[3])

\* [c_x, c_y, c_z, |c|^2 - r^2]
TrueParameters(c, r2) ==
    <<c[1], c[2], c[3], c[1] * c[1] + c[2] * c[2] + c[3] * c[3] - r2>>

Dot4(u, v) == u[1] * v[1] + u[2] * v[2] + u[3] * v[3] + u[4] * v[4]

\* C11: for every centre c and every point p (at distance r from c), the row
\* built for p satisfies row . [c, |c|^2 - r^2] = rhs; when all points lie on
\* one sphere (c, r) the true parameters solve the whole system exactly; and
\* when moreover A has rank 4, the solved vector is [c, |c|^2 - r^2] and the
\* reported radius is r.
C11_RoundTrip ==
    LET n == Len(physical_points)
        fullRank == spc \in {"solved", "done"} /\ n >= 4 /\ Rank(A) = 4
    IN \A c \in SphereCentres :
          /\ \A i \in 1..row :
                Dot4(A[i], TrueParameters(c, DistSquared(physical_points[i], c))) = b[i]
          /\ (n >= 1 /\ row = n) =>
                LET r2 == DistSquared(physical_points[1], c)
                    onSphere == \A i \in 1..n : DistSquared(physical_points[i], c) = r2
                IN onSphere =>
                      /\ \A i \in 1..n : Dot4(A[i], TrueParameters(c, r2)) = b[i]
                      /\ fullRank => res = RatVector(TrueParameters(c, r2))
                      /\ (fullRank /\ spc = "done") =>
                            radius = [kind |-> "real", square |-> <<r2, 1>>]

C11_Witness ==
    /\ spc = "done"
    /\ physical_points = <<<<6, 2, 3>>, <<1, 7, 3>>, <<1, 2, 8>>, <<-4, 2, 3>>>>
    /\ res = <<<<1, 1>>, <<2, 1>>, <<3, 1>>, <<-11, 1>>>>
    /\ radius = [kind |-> "real", square |-> <<25, 1>>]

\* Fewer than 4 points, or a rank-deficient A.
DegenerateInput ==
    Len(physical_points) < 4 \/ Rank(A) < 4

\* C12: once line 256 has been reached on fewer than 4 points or on points
\* that make A rank-deficient, the cell has failed with DegenerateInputError
\* and holds no solved vector and no radius.
C12_DegenerateInputRejected ==
    (spc \in {"solved", "raised", "done"} /\ DegenerateInput) =>
        /\ fit_error = "DegenerateInputError"
        /\ res = <<>>
        /\ radius = NotReported

\* C14: when a radius has been reported, it is a real number, not negative,
\* whose square is |centre|^2 - u[3], where centre is the first three
\* components of the solved vector u.
C14_RadiusFromSolvedVector ==
    spc = "done" =>
        LET centre == SubSeq(res, 1, 3)
            normSq == RatAdd(RatAdd(RatMul(centre[1], centre[1]),
                                    RatMul(centre[2], centre[2])),
                             RatMul(centre[3], centre[3]))
        IN /\ radius.kind = "real"
           /\ radius.square[1] >= 0
           /\ radius.square = RatSub(normSq, res[4])

C14_Witness ==
    /\ spc = "done"
    /\ physical_points = <<<<0, 0, 0>>, <<6, 2, 3>>, <<1, 7, 3>>, <<1, 2, 8>>>>
    /\ res = <<<<3, 2>>, <<5, 2>>, <<7, 2>>, <<0, 1>>>>
    /\ radius = [kind |-> "real", square |-> <<83, 4>>]

-----------------------------------------------------------------------------
(* The radius recovery of line 258 on its own, for any solved vector.      *)

\* Solved vectors with small integer components.
SolvedVectors ==
    {RatVector(u) : u \in [1..4 -> (0 - MaxComponent)..MaxComponent]}

\* Line 256 has returned res.
InitRadius ==
    /\ physical_points = <<>>
    /\ A = <<>>
    /\ b = <<>>
    /\ row = 0
    /\ spc = "solved"
    /\ res \in SolvedVectors
    /\ radius = NotReported
    /\ fit_error = NoError
    /\ searchIdle
    /\ gridIdle
    /\ roiIdle
    /\ showIdle

NextRadius == Report

SpecRadius == InitRadius /\ [][NextRadius]_vars

-----------------------------------------------------------------------------
(* ROI selection, lines 73-96 of the segmentation notebook.                *)

\* spherical_fiducials_image.GetSize(), scaled down.
ImageSize == <<3, 2, 2>>

\* Line 75
mask_value == 255

Voxels ==
    {<<x, y, z>> : x \in 0..(ImageSize[1] - 1), y \in 0..(ImageSize[2] - 1),
                   z \in 0..(ImageSize[3] - 1)}

\* range(lo, hi)
PyRange(lo, hi) == [i \in 1..(hi - lo) |-> lo + i - 1]

\* The non-empty ranges inside axis d of the image.
AxisRanges(d) ==
    {PyRange(lo, hi) : lo \in 0..(ImageSize[d] - 1), hi \in 1..ImageSize[d]}
    \ {<<>>}

\* The value of one ROI name: [range, range, range] (lines 73-74).
RoiRanges ==
    {<<rx, ry, rz>> : rx \in AxisRanges(1), ry \in AxisRanges(2), rz \in AxisRanges(3)}

\* Dictionaries like rois of lines 73-74: two named ROIs.
RoiDicts == [{"ROI1", "ROI2"} -> RoiRanges]

\* Lines 94-95: the names of the drop-down, the placeholder first.
roi_list(dict) == {"Select ROI"} \cup DOMAIN dict

\* None
None == <<>>

\* roi_dict.get(roi_name)
DictGet(dict, name) == IF name \in DOMAIN dict THEN dict[name] ELSE None

\* Lines 82-87 without line 82: the voxels of the three ranges are set to
\* mask_value in the mask that is already there.
PaintedOnOldMask(ranges) ==
    [v \in Voxels |->
        IF /\ v[1] \in Range(ranges[1])
           /\ v[2] \in Range(ranges[2])
           /\ v[3] \in Range(ranges[3])
        THEN mask_value
        ELSE IF mask = <<>> THEN 0 ELSE mask[v]]

\* Lines 82-87: a new image of zeros with the voxels of the three ranges
\* set to mask_value.
PaintedMask(ranges) ==
    [v \in Voxels |->
        IF /\ v[1] \in Range(ranges[1])
           /\ v[2] \in Range(ranges[2])
           /\ v[3] \in Range(ranges[3])
        THEN mask_value ELSE 0]

\* A slice lo:hi of an axis with 0 <= lo and hi inside the axis: the
\* indices lo, ..., hi-1.
SliceIndices(lo, hi) == lo..(hi - 1)

\* The indices r[0]:r[-1] of a non-empty range r.
RangeSlice(r) == SliceIndices(r[1], r[Len(r)])

\* The voxels of image[r0[0]:r0[-1], r1[0]:r1[-1], r2[0]:r2[-1]].
SlicedRegion(ranges) ==
    {v \in Voxels : /\ v[1] \in RangeSlice(ranges[1])
                    /\ v[2] \in RangeSlice(ranges[2])
                    /\ v[3] \in RangeSlice(ranges[3])}

\* A name of the histogram or crop cell that has not been assigned.
Unassigned3D == [assigned |-> FALSE, ranges |-> <<>>, indices |-> {}]

\* The notebook after the cell of lines 73-96 has run: interact has called
\* the callback with the placeholder, and mask has never been assigned.
InitRoi ==
    /\ roi_dict \in RoiDicts
    /\ roi_name = "Select ROI"
    /\ mask_ranges = DictGet(roi_dict, roi_name)
    /\ mask = <<>>
    /\ painted_before = {}
    /\ roi_intensity_values = Unassigned3D
    /\ sub_image = Unassigned3D
    /\ searchIdle
    /\ gridIdle
    /\ sphereIdle
    /\ showIdle

\* Lines 77-92: select_roi_dropdown_callback(roi_name, roi_dict).
select_roi_dropdown_callback(name) ==
    /\ roi_name' = name
    /\ mask_ranges' = DictGet(roi_dict, name)
    /\ IF mask_ranges' # None
          THEN mask' = PaintedMask(mask_ranges')
          ELSE UNCHANGED mask
    /\ painted_before' =
          IF roi_name \in DOMAIN roi_dict
             THEN painted_before \cup {roi_name} ELSE painted_before
    /\ UNCHANGED <<roi_dict, roi_intensity_values, sub_image,
                   searchVars, gridVars, sphereVars, showVars>>

\* The user picks an entry of the drop-down.
SelectRoi ==
    \E name \in roi_list(roi_dict) :
        /\ name # roi_name
        /\ select_roi_dropdown_callback(name)

\* Lines 115-119: the histogram cell.  With mask_ranges None the subscript
\* of line 116 raises and nothing is assigned.
HistogramCell ==
    /\ mask_ranges # None
    /\ roi_intensity_values' =
          [assigned |-> TRUE, ranges |-> mask_ranges,
           indices |-> SlicedRegion(mask_ranges)]
    /\ UNCHANGED <<roi_dict, mask, mask_ranges, roi_name, painted_before,
                   sub_image, searchVars, gridVars, sphereVars, showVars>>

\* Lines 216-218: the crop before the edge detection.
CropCell ==
    /\ mask_ranges # None
    /\ sub_image' =
          [assigned |-> TRUE, ranges |-> mask_ranges,
           indices |-> SlicedRegion(mask_ranges)]
    /\ UNCHANGED <<roi_dict, mask, mask_ranges, roi_name, painted_before,
                   roi_intensity_values, searchVars, gridVars, sphereVars, showVars>>

NextRoi == SelectRoi \/ HistogramCell \/ CropCell

SpecRoi == InitRoi /\ [][NextRoi]_vars

\* C20: whenever mask exists, mask_ranges is the range triple of the ROI
\* painted in mask; in particular mask_ranges is not empty while mask holds
\* an ROI.
C20_MaskMatchesRanges ==
    mask # <<>> =>
        /\ mask_ranges # None
        /\ mask = PaintedMask(mask_ranges)

\* The voxels whose three indices lie in the three ranges.
MarkedRegion(ranges) ==
    {v \in Voxels : \A d \in 1..3 : \E k \in 1..Len(ranges[d]) : ranges[d][k] = v[d]}

\* C21: the region read by the histogram cell and the region cropped for the
\* edge detection are exactly the voxels of the selected ROI that the
\* callback set to mask_value.
C21_AnalysedRegionIsMaskRegion ==
    /\ roi_intensity_values.assigned =>
          roi_intensity_values.indices = MarkedRegion(roi_intensity_values.ranges)
    /\ sub_image.assigned =>
          sub_image.indices = MarkedRegion(sub_image.ranges)

\* C22: after a call with a valid ROI name, mask is mask_value at exactly the
\* voxels whose indices lie in the three ranges of that ROI and 0 at every
\* other voxel, whichever ROIs were painted before.
C22_MaskIsExactlyTheRoi ==
    roi_name \in DOMAIN roi_dict =>
        \A v \in Voxels :
            mask[v] = IF v \in MarkedRegion(roi_dict[roi_name]) THEN 255 ELSE 0

C22_Witness ==
    /\ roi_name = "ROI2"
    /\ painted_before = {"ROI1"}
    /\ \E v \in MarkedRegion(roi_dict["ROI1"]) :
          v \notin MarkedRegion(roi_dict["ROI2"]) /\ mask[v] = 0
    /\ \E v \in MarkedRegion(roi_dict["ROI2"]) :
          v \notin MarkedRegion(roi_dict["ROI1"]) /\ mask[v] = 255

-----------------------------------------------------------------------------
(* myshow3d, lines 360-398 of the imshow notebook.                         *)

\* Slice indices a call may name.
SliceNumbers == {0, 1}

SliceLists == UNION {[1..n -> SliceNumbers] : n \in 0..MaxSlices}

\* img.GetNumberOfComponentsPerPixel(): a scalar or a two-component image.
ComponentCounts == {1, 2}

\* img[s,:,:], img[:,s,:] or img[:,:,s]; component -1 stands for an image
\* that still has all its components.
Slice(axis, s) == [axis |-> axis, index |-> s, component |-> 0 - 1]

\* Line 369: sitk.Image([0,0], ...)
img_null == [axis |-> "null", index |-> 0, component |-> 0 - 1]

\* Line 393: sitk.VectorIndexSelectionCast(s, i)
VectorIndexSelectionCast(s, i) == [s EXCEPT !.component = i]

\* [img_null]*n
Nulls(n) == [k \in 1..n |-> img_null]

\* Lines 375, 379, 383 without the padding.
Unpadded(slices, len) == slices

\* Lines 375, 379, 383: slices + [img_null]*(maxlen-len(slices))
Padded(slices, len) == slices \o Nulls(len - Len(slices))

\* Line 366: max of three lengths.
Max3(x, y, z) ==
    IF x >= y /\ x >= z THEN x ELSE IF y >= z THEN y ELSE z

\* sitk.Tile(images, layout): the call is kept as it was made.
Tile(images, layout) == [images |-> images, layout |-> layout]

InitShow ==
    /\ xslices \in SliceLists
    /\ yslices \in SliceLists
    /\ zslices \in SliceLists
    /\ components \in ComponentCounts
    /\ img_xslices = <<>>
    /\ img_yslices = <<>>
    /\ img_zslices = <<>>
    /\ maxlen = 0
    /\ img_slices = <<>>
    /\ d_rows = 0
    /\ img = InputImage
    /\ displayed = FALSE
    /\ show_pc = "start"
    /\ searchIdle
    /\ gridIdle
    /\ sphereIdle
    /\ roiIdle

\* Lines 361-372: the three slice lists, maxlen, and the empty img_slices.
TakeSlices ==
    /\ show_pc = "start"
    /\ img_xslices' = [k \in 1..Len(xslices) |-> Slice("x", xslices[k])]
    /\ img_yslices' = [k \in 1..Len(yslices) |-> Slice("y", yslices[k])]
    /\ img_zslices' = [k \in 1..Len(zslices) |-> Slice("z", zslices[k])]
    /\ maxlen' = Max3(Len(xslices), Len(yslices), Len(zslices))
    /\ img_slices' = <<>>
    /\ d_rows' = 0
    /\ show_pc' = "x"
    /\ UNCHANGED <<xslices, yslices, zslices, components, img, displayed,
                   searchVars, gridVars, sphereVars, roiVars>>

\* One of the three if statements of lines 374-384.
AddRow(slices, here, next) ==
    /\ show_pc = here
    /\ IF Len(slices) # 0
          THEN /\ img_slices' = img_slices \o Padded(slices, maxlen)
               /\ d_rows' = d_rows + 1
          ELSE UNCHANGED <<img_slices, d_rows>>
    /\ show_pc' = next
    /\ UNCHANGED <<xslices, yslices, zslices, components, img_xslices,
                   img_yslices, img_zslices, maxlen, img, displayed,
                   searchVars, gridVars, sphereVars, roiVars>>

\* Lines 374-376
AddXRow == AddRow(img_xslices, "x", "y")

\* Lines 378-380
AddYRow == AddRow(img_yslices, "y", "z")

\* Lines 382-384
AddZRow == AddRow(img_zslices, "z", "tile")

\* Lines 386-395: the tiling, per component for a vector image.
TileSlices ==
    /\ show_pc = "tile"
    /\ IF maxlen # 0
          THEN IF components = 1
                  THEN img' = [op |-> "Tile",
                               tiles |-> <<Tile(img_slices, <<maxlen, d_rows>>)>>]
                  ELSE img' = [op |-> "Compose",
                               tiles |-> [i \in 1..components |->
                                   Tile([k \in 1..Len(img_slices) |->
                                            VectorIndexSelectionCast(img_slices[k], i - 1)],
                                        <<maxlen, d_rows>>)]]
          ELSE UNCHANGED img
    /\ show_pc' = "show"
    /\ UNCHANGED <<xslices, yslices, zslices, components, img_xslices,
                   img_yslices, img_zslices, maxlen, img_slices, d_rows,
                   displayed, searchVars, gridVars, sphereVars, roiVars>>

\* Line 398: myshow(img, title, margin, dpi)
Show ==
    /\ show_pc = "show"
    /\ displayed' = TRUE
    /\ show_pc' = "done"
    /\ UNCHANGED <<xslices, yslices, zslices, components, img_xslices,
                   img_yslices, img_zslices, maxlen, img_slices, d_rows, img,
                   searchVars, gridVars, sphereVars, roiVars>>

NextShow == TakeSlices \/ AddXRow \/ AddYRow \/ AddZRow \/ TileSlices \/ Show

SpecShow == InitShow /\ [][NextShow]_vars

\* The slice lists of the call that are not empty, in the order x, y, z,
\* each with its axis.
NonEmptyLists ==
    SelectSeq(<<[axis |-> "x", list |-> xslices],
                [axis |-> "y", list |-> yslices],
                [axis |-> "z", list |-> zslices]>>,
              LAMBDA e : e.list # <<>>)

\* C23: when myshow is called, every list handed to the tiling has exactly
\* maxlen*d images, maxlen being the longest of the three slice lists and d
\* the number of non-empty ones: row j holds the slices of the j-th
\* non-empty list in order and then empty images up to maxlen, an empty list
\* has no row, and with three empty lists nothing is tiled and the input
\* image is displayed.
C23_TiledListIsPaddedGrid ==
    displayed =>
        LET longest == CHOOSE m \in 0..(MaxSlices + 1) :
                          /\ m \in {Len(xslices), Len(yslices), Len(zslices)}
                          /\ \A l \in {Len(xslices), Len(yslices), Len(zslices)} : l <= m
            rows == Len(NonEmptyLists)
        IN IF longest = 0
           THEN img = InputImage
           ELSE /\ Len(img.tiles) = components
                /\ \A t \in 1..Len(img.tiles) :
                      /\ Len(img.tiles[t].images) = longest * rows
                      /\ img.tiles[t].layout = <<longest, rows>>
                      /\ \A j \in 1..rows : \A i \in 1..longest :
                            LET image == img.tiles[t].images[(j - 1) * longest + i]
                                from == NonEmptyLists[j]
                            IN /\ image.component =
                                     IF components = 1 THEN 0 - 1 ELSE t - 1
                               /\ IF i <= Len(from.list)
                                  THEN /\ image.axis = from.axis
                                       /\ image.index = from.list[i]
                                  ELSE image.axis = "null"

C23_Witness ==
    /\ displayed
    /\ xslices = <<1>>
    /\ yslices = <<>>
    /\ zslices = <<0, 1>>
    /\ components = 1
    /\ img = [op |-> "Tile",
              tiles |-> <<Tile(<<Slice("x", 1), img_null, Slice("z", 0), Slice("z", 1)>>,
                               <<2, 2>>)>>]

=============================================================================
